---------------------------- MODULE Spec2Model ----------------------------
(***************************************************************************)
(* A model of logic/FileSystem.cpp: the throwing file I/O (FS::write,      *)
(* FS::read), the recursive tree operations (FS::copyPath, FS::deletePath) *)
(* and the path utilities (FS::NormalizePath, FS::DirNameFromString,       *)
(* FS::openDirInDefaultProgram).                                           *)
(*                                                                         *)
(* The file system the Qt calls act on is a map from absolute paths        *)
(* (sequences of names) to nodes.  A path of more than MaxDepth names is   *)
(* refused by every file-system call, as the host refuses a path longer    *)
(* than its path-length limit.  The tree operations are modelled for the   *)
(* build without Q_OS_WIN32.                                               *)
(***************************************************************************)
EXTENDS Integers, Sequences, FiniteSets, TLC

VARIABLES
    fs,       \* the file system: path -> node
    fs0,      \* the file system when the current call began
    locked,   \* entries the host refuses to remove
    pc,       \* position of the current call
    call,     \* the arguments of the current call
    stack,    \* the frames of the nested calls, outermost first
    result,   \* the value the call returned
    log,      \* the per-entry operations performed so far
    listed    \* the entries the directory listings have produced so far

vars == <<fs, fs0, locked, pc, call, stack, result, log, listed>>

---------------------------------------------------------------------------
(* The file system                                                         *)

Names == {"a", "b"}

\* Names in the order QDir sorts them (QDir::Name).
SortedNames == <<"a", "b">>

\* Paths longer than this are refused by the host (its path-length limit).
MaxDepth == 4

Paths == UNION {[1..n -> Names] : n \in 1..MaxDepth}

NoData == <<>>
NoPath == <<>>

NoNode == [kind |-> "none", data |-> NoData, target |-> NoPath]
DirNode == [kind |-> "dir", data |-> NoData, target |-> NoPath]
OtherNode == [kind |-> "other", data |-> NoData, target |-> NoPath]
FileNode(d) == [kind |-> "file", data |-> d, target |-> NoPath]
LinkNode(t) == [kind |-> "link", data |-> NoData, target |-> t]

\* What a failed path resolution yields: no node lives there.
Bad == <<"!">>

\* The node at a physical path; the root directory always exists.
At(f, p) ==
    IF p = <<>> THEN DirNode
    ELSE IF p \in DOMAIN f THEN f[p]
    ELSE NoNode

EmptyFS == <<>>

\* The file system with node n at p, and with nothing at p.
Put(f, p, n) == (p :> n) @@ f
Del(f, p) == [q \in DOMAIN f \ {p} |-> f[q]]

IsPrefix(p, q) == Len(p) <= Len(q) /\ SubSeq(q, 1, Len(p)) = p

Children(f, d) == {n \in Names : At(f, Append(d, n)).kind # "none"}

\* Path resolution as the host does it: every component but the last is
\* followed when it is a symlink; the last one only when followLast.  The
\* host follows a bounded number of symlinks (fuel) and then gives up.
RECURSIVE Walk(_, _, _, _, _)
Walk(f, cur, rest, fuel, followLast) ==
    IF rest = <<>> THEN cur
    ELSE LET p == Append(cur, Head(rest))
             n == At(f, p)
         IN  IF Len(p) > MaxDepth THEN Bad
             ELSE IF n.kind = "link" /\ (Len(rest) > 1 \/ followLast)
                  THEN IF fuel = 0 THEN Bad
                       ELSE Walk(f, <<>>, n.target \o Tail(rest), fuel - 1, followLast)
             ELSE IF Len(rest) > 1
                  THEN IF n.kind = "dir" THEN Walk(f, p, Tail(rest), fuel, followLast)
                       ELSE Bad
             ELSE p

\* lstat: the entry a path names, symlinks in the last component not followed.
Lstat(f, p) == IF Len(p) > MaxDepth THEN Bad ELSE Walk(f, <<>>, p, MaxDepth, FALSE)

\* stat: the object a path leads to, all symlinks followed.
Stat(f, p) == IF Len(p) > MaxDepth THEN Bad ELSE Walk(f, <<>>, p, MaxDepth, TRUE)

\* QFileInfo's queries.
isSymLink(f, p) == At(f, Lstat(f, p)).kind = "link"
isDir(f, p) == At(f, Stat(f, p)).kind = "dir"
isFile(f, p) == At(f, Stat(f, p)).kind = "file"
exists(f, p) == At(f, Stat(f, p)).kind # "none"
symLinkTarget(f, p) == At(f, Lstat(f, p)).target

\* QDir::mkpath: create every missing component; an existing component must
\* be a directory or a symlink that leads to one.
RECURSIVE MkWalk(_, _, _)
MkWalk(f, cur, rest) ==
    IF rest = <<>> THEN [ok |-> TRUE, fs |-> f]
    ELSE LET p == Append(cur, Head(rest))
             n == At(f, p)
         IN  IF Len(p) > MaxDepth THEN [ok |-> FALSE, fs |-> f]
             ELSE IF n.kind = "none"
                  THEN MkWalk(Put(f, p, DirNode), p, Tail(rest))
             ELSE IF n.kind = "dir" THEN MkWalk(f, p, Tail(rest))
             ELSE IF n.kind = "link" /\ At(f, Stat(f, p)).kind = "dir"
                  THEN MkWalk(f, Stat(f, p), Tail(rest))
             ELSE [ok |-> FALSE, fs |-> f]

mkpath(f, p) ==
    IF Len(p) > MaxDepth THEN [ok |-> FALSE, fs |-> f] ELSE MkWalk(f, <<>>, p)

\* QFile::copy: refuses an existing destination, copies the bytes otherwise.
QFileCopy(f, from, to) ==
    IF isFile(f, from) /\ ~exists(f, to) /\ Lstat(f, to) # Bad
    THEN [ok |-> TRUE,
          fs |-> Put(f, Lstat(f, to), FileNode(At(f, Stat(f, from)).data))]
    ELSE [ok |-> FALSE, fs |-> f]

\* QFile::link: a new symlink at `to` pointing at `target`.
QFileLink(f, target, to) ==
    IF Lstat(f, to) # Bad /\ At(f, Lstat(f, to)).kind = "none"
    THEN [ok |-> TRUE, fs |-> Put(f, Lstat(f, to), LinkNode(target))]
    ELSE [ok |-> FALSE, fs |-> f]

\* QFile::remove: unlink the entry itself (never what a symlink points to).
QFileRemove(f, lk, p) ==
    LET q == Lstat(f, p)
    IN  IF At(f, q).kind \in {"file", "link", "other"} /\ q \notin lk
        THEN [ok |-> TRUE, fs |-> Del(f, q)]
        ELSE [ok |-> FALSE, fs |-> f]

\* QDir::rmdir: removes an empty directory only.
rmdir(f, lk, p) ==
    LET q == Lstat(f, p)
    IN  IF At(f, q).kind = "dir" /\ Children(f, q) = {} /\ q \notin lk
        THEN [ok |-> TRUE, fs |-> Del(f, q)]
        ELSE [ok |-> FALSE, fs |-> f]

---------------------------------------------------------------------------
(* The file systems and arguments the tree operations are run on           *)

D1 == <<1>>
D2 == <<0, 1>>

\* What may sit at a/a and a/b.
AOpts == {"none", "file1", "file2", "linkA", "linkB", "other", "dir", "dirfile"}

\* What may sit at b/a and b/b when b is a directory.
BOpts == {"none", "file1", "dir", "linkA"}

Sub(f, p, o) ==
    CASE o = "none" -> f
      [] o = "file1" -> Put(f, p, FileNode(D1))
      [] o = "file2" -> Put(f, p, FileNode(D2))
      [] o = "linkA" -> Put(f, p, LinkNode(<<"a">>))
      [] o = "linkB" -> Put(f, p, LinkNode(<<"b">>))
      [] o = "other" -> Put(f, p, OtherNode)
      [] o = "dir" -> Put(f, p, DirNode)
      [] o = "dirfile" -> Put(Put(f, p, DirNode), Append(p, "b"), FileNode(D2))

TreeA == {Sub(Sub(Put(EmptyFS, <<"a">>, DirNode), <<"a", "a">>, o1), <<"a", "b">>, o2) :
             o1 \in AOpts, o2 \in AOpts}

TreeB(f) ==
    {f, Put(f, <<"b">>, FileNode(D1))}
    \cup {Sub(Sub(Put(f, <<"b">>, DirNode), <<"b", "a">>, o1), <<"b", "b">>, o2) :
             o1 \in BOpts, o2 \in BOpts}

InitFS == UNION {TreeB(f) : f \in TreeA}

---------------------------------------------------------------------------
(* FS::copyPath                                                            *)

CopySrcs == {<<"a">>, <<"a", "a">>, <<"b", "a">>}
CopyDsts == {<<"b">>, <<"b", "b">>, <<"a", "b">>}

\* src + QDir::separator() + f
inner(path, f) == Append(path, f)

\* dir.entryList(Files | Dirs | NoDotAndDotDot | Hidden | System): every
\* entry of the directory, by name.
entryList(f, dir) ==
    SelectSeq(SortedNames, LAMBDA n : n \in Children(f, Stat(f, dir)))

\* As FS::ensureFilePathExists does: only the parent path is ensured.
ensureParentPathExists(f, foldernamepath) ==
    mkpath(f, SubSeq(foldernamepath, 1, Len(foldernamepath) - 1))

ensureFolderPathExists(f, foldernamepath) == mkpath(f, foldernamepath)

\* OK = r: the earlier results are forgotten.
AssignLast(OK, r) == r

\* OK &= r
AndAssign(OK, r) == OK /\ r

\* The head of copyPath: the two early returns, then the listing.
copyPathEnter(f, src, dst) ==
    IF ~isDir(f, src) THEN [entered |-> FALSE, fs |-> f, todo |-> <<>>]
    ELSE LET mk == ensureFolderPathExists(f, dst)
         IN  IF ~mk.ok THEN [entered |-> FALSE, fs |-> mk.fs, todo |-> <<>>]
             ELSE [entered |-> TRUE, fs |-> mk.fs, todo |-> entryList(mk.fs, src)]

CopyFrame(src, dst, todo) == [src |-> src, dst |-> dst, todo |-> todo, OK |-> TRUE]

Top == stack[Len(stack)]
Below == SubSeq(stack, 1, Len(stack) - 1)
inner_src == inner(Top.src, Head(Top.todo))
inner_dst == inner(Top.dst, Head(Top.todo))

Row(e, d, op, ok) == [entry |-> e, dst |-> d, op |-> op, ok |-> ok]

\* The entry at the head of the loop is done with result r.
Step(f, op, r) ==
    /\ fs' = f
    /\ stack' = Append(Below, [Top EXCEPT !.todo = Tail(@), !.OK = AndAssign(@, r)])
    /\ log' = log \cup {Row(inner_src, inner_dst, op, r)}
    /\ UNCHANGED <<fs0, locked, pc, call, result, listed>>

InitCopy ==
    /\ fs \in InitFS
    /\ fs0 = fs
    /\ locked = {}
    /\ pc = "call"
    /\ call \in [op : {"copyPath"}, src : CopySrcs, dst : CopyDsts,
                 follow_symlinks : BOOLEAN]
    /\ stack = <<>>
    /\ result = FALSE
    /\ log = {}
    /\ listed = {}

Listing(src, todo) == {inner(src, todo[i]) : i \in 1..Len(todo)}

CopyStart ==
    /\ pc = "call"
    /\ LET e == copyPathEnter(fs, call.src, call.dst)
       IN  /\ fs' = e.fs
           /\ IF e.entered
              THEN /\ pc' = "run"
                   /\ stack' = <<CopyFrame(call.src, call.dst, e.todo)>>
                   /\ listed' = Listing(call.src, e.todo)
                   /\ UNCHANGED result
              ELSE /\ pc' = "done"
                   /\ result' = FALSE
                   /\ UNCHANGED <<stack, listed>>
    /\ UNCHANGED <<fs0, locked, call, log>>

InLoop == pc = "run" /\ Top.todo # <<>>

CopyLink ==
    /\ InLoop
    /\ ~call.follow_symlinks /\ isSymLink(fs, inner_src)
    /\ LET r == QFileLink(fs, symLinkTarget(fs, inner_src), inner_dst)
       IN  Step(r.fs, "link", r.ok)

CopyRecurse ==
    /\ InLoop
    /\ ~(~call.follow_symlinks /\ isSymLink(fs, inner_src))
    /\ isDir(fs, inner_src)
    /\ LET e == copyPathEnter(fs, inner_src, inner_dst)
       IN  IF e.entered
           THEN /\ fs' = e.fs
                /\ stack' = Append(Append(Below, [Top EXCEPT !.todo = Tail(@)]),
                                   CopyFrame(inner_src, inner_dst, e.todo))
                /\ listed' = listed \cup Listing(inner_src, e.todo)
                /\ UNCHANGED <<fs0, locked, pc, call, result, log>>
           ELSE Step(e.fs, "recurse", FALSE)

CopyFile ==
    /\ InLoop
    /\ ~(~call.follow_symlinks /\ isSymLink(fs, inner_src))
    /\ ~isDir(fs, inner_src)
    /\ isFile(fs, inner_src)
    /\ LET r == QFileCopy(fs, inner_src, inner_dst)
       IN  Step(r.fs, "copy", r.ok)

CopyUnknown ==
    /\ InLoop
    /\ ~(~call.follow_symlinks /\ isSymLink(fs, inner_src))
    /\ ~isDir(fs, inner_src)
    /\ ~isFile(fs, inner_src)
    /\ Step(fs, "unknown", FALSE)

\* return OK
CopyReturn ==
    /\ pc = "run" /\ Top.todo = <<>>
    /\ IF Len(stack) = 1
       THEN /\ pc' = "done"
            /\ result' = Top.OK
            /\ stack' = <<>>
            /\ UNCHANGED log
       ELSE /\ stack' = Append(SubSeq(stack, 1, Len(stack) - 2),
                               [stack[Len(stack) - 1] EXCEPT !.OK = AndAssign(@, Top.OK)])
            /\ log' = log \cup {Row(Top.src, Top.dst, "recurse", Top.OK)}
            /\ UNCHANGED <<pc, result>>
    /\ UNCHANGED <<fs, fs0, locked, call, listed>>

NextCopy ==
    \/ CopyStart
    \/ CopyLink
    \/ CopyRecurse
    \/ CopyFile
    \/ CopyUnknown
    \/ CopyReturn

SpecCopy == InitCopy /\ [][NextCopy]_vars


---------------------------------------------------------------------------
(* Claims about FS::copyPath                                               *)

\* Where the source and the destination directory of the call live.
SrcRoot == Stat(fs0, call.src)
DstRoot == Stat(mkpath(fs0, call.dst).fs, call.dst)

Under(f, root) == {p \in DOMAIN f : IsPrefix(root, p) /\ p # root}

PlainTree(f, root) == \A p \in Under(f, root) : f[p].kind \in {"file", "dir"}

SetMax(S) == IF S = {} THEN 0 ELSE CHOOSE y \in S : \A z \in S : z <= y

Height(f, root) == SetMax({Len(p) - Len(root) : p \in Under(f, root)})

SameEntry(n, m) == n.kind = m.kind /\ n.data = m.data

\* The source is a directory tree of files and directories only, the
\* destination does not exist and it and everything below it can be created.
CopyPlainPre ==
    /\ call.op = "copyPath"
    /\ isDir(fs0, call.src)
    /\ PlainTree(fs0, SrcRoot)
    /\ At(fs0, Lstat(fs0, call.dst)).kind = "none"
    /\ mkpath(fs0, call.dst).ok
    /\ Len(call.dst) + Height(fs0, SrcRoot) <= MaxDepth

CopyPlainPost ==
    /\ result = TRUE
    /\ \A r \in Paths : SameEntry(At(fs, DstRoot \o r), At(fs0, SrcRoot \o r))
    /\ \A p \in Paths : IsPrefix(SrcRoot, p) => At(fs, p) = At(fs0, p)

\* C3 as claimed: copying a tree of files and directories to a destination
\* that does not exist yet returns true, reproduces the tree at the
\* destination and leaves the source unchanged.
CopyReproducesTree == (pc = "done" /\ CopyPlainPre) => CopyPlainPost

\* C3 amended: the same, for a destination that does not lie inside the
\* source directory.
CopyReproducesTreeOutside ==
    (pc = "done" /\ CopyPlainPre /\ ~IsPrefix(SrcRoot, DstRoot)) => CopyPlainPost

\* A two-level tree has been copied to a destination whose parent was missing.
CopyReproducesTreeWitness ==
    /\ pc = "done" /\ CopyPlainPre /\ ~IsPrefix(SrcRoot, DstRoot)
    /\ Height(fs0, SrcRoot) > 1
    /\ Len(call.dst) > 1 /\ ~exists(fs0, SubSeq(call.dst, 1, Len(call.dst) - 1))
    /\ result = TRUE

CopyPre ==
    /\ call.op = "copyPath"
    /\ isDir(fs0, call.src)
    /\ mkpath(fs0, call.dst).ok

\* What a successful per-entry operation leaves at the destination.
Present(row) ==
    CASE row.op = "copy" ->
             /\ isFile(fs, row.dst)
             /\ At(fs, Stat(fs, row.dst)).data = At(fs, Stat(fs, row.entry)).data
      [] row.op = "link" ->
             /\ isSymLink(fs, row.dst)
             /\ symLinkTarget(fs, row.dst) = symLinkTarget(fs, row.entry)
      [] row.op = "recurse" -> isDir(fs, row.dst)
      [] OTHER -> FALSE

\* C4: the value copyPath returns is the AND of every per-entry operation of
\* the traversal, every listed entry was attempted whatever failed before
\* it, and every entry whose operation succeeded is at the destination.
CopyResultIsAnd ==
    (pc = "done" /\ CopyPre) =>
        /\ result = (\A row \in log : row.ok)
        /\ listed = {row.entry : row \in log}
        /\ \A row \in log : row.ok => Present(row)

\* A failed entry was followed, in the same directory, by one that was copied.
CopyResultIsAndWitness ==
    /\ pc = "done" /\ CopyPre /\ result = FALSE
    /\ \E r1, r2 \in log :
          /\ ~r1.ok /\ r2.ok
          /\ Len(r1.entry) = Len(r2.entry)
          /\ SubSeq(r1.entry, 1, Len(r1.entry) - 1) = SubSeq(r2.entry, 1, Len(r2.entry) - 1)
          /\ r1.entry[Len(r1.entry)] = "a" /\ r2.entry[Len(r2.entry)] = "b"

Dirs(f) == {p \in DOMAIN f : f[p].kind = "dir"}

---------------------------------------------------------------------------
(* FS::deletePath                                                          *)

DeleteRoots == {<<"a">>, <<"b">>, <<"a", "a">>, <<"b", "a">>}

\* The entries the host may refuse to remove (at most one per run).
LockSets == {{}, {<<"a">>}, {<<"a", "b">>}, {<<"a", "a", "b">>}}

\* dir.entryInfoList(NoDotAndDotDot | System | Hidden | AllDirs | Files,
\* DirsFirst): every entry, directories (and symlinks to them) first.
entryInfoList(f, dir) ==
    LET here(n) == n \in Children(f, Stat(f, dir))
    IN  SelectSeq(SortedNames, LAMBDA n : here(n) /\ isDir(f, inner(dir, n)))
        \o SelectSeq(SortedNames, LAMBDA n : here(n) /\ ~isDir(f, inner(dir, n)))

\* No test for links: a symlink to a directory counts as a directory.
isLinkEntryNever(f, p) == FALSE

\* info.isSymLink(): the test that keeps the traversal out of a link.
isLinkEntry(f, p) == isSymLink(f, p)

\* The emptied directory itself is left behind.
RemoveRootSkipped(f, lk, p) == [ok |-> TRUE, fs |-> f]

\* OK &= dir.rmdir(dir.absolutePath())
RemoveRoot(f, lk, p) == rmdir(f, lk, p)

DeleteFrame(path, todo) == [path |-> path, todo |-> todo, OK |-> TRUE]

\* info.absoluteFilePath()
entryPath == inner(Top.path, Head(Top.todo))

Removal(p, op, ok) == [path |-> p, op |-> op, ok |-> ok]

InitDelete ==
    /\ fs \in InitFS
    /\ fs0 = fs
    /\ locked \in LockSets
    /\ pc = "call"
    /\ call \in [op : {"deletePath"}, path : DeleteRoots]
    /\ stack = <<>>
    /\ result = FALSE
    /\ log = <<>>
    /\ listed = {}

DeleteStart ==
    /\ pc = "call"
    /\ IF ~isDir(fs, call.path)
       THEN /\ pc' = "done"
            /\ result' = TRUE
            /\ UNCHANGED stack
       ELSE /\ pc' = "run"
            /\ stack' = <<DeleteFrame(call.path, entryInfoList(fs, call.path))>>
            /\ UNCHANGED result
    /\ UNCHANGED <<fs, fs0, locked, call, log, listed>>

\* The entry at the head of the loop was removed (or not): OK &= r.ok
DeleteStep(r) ==
    /\ fs' = r.fs
    /\ stack' = Append(Below, [Top EXCEPT !.todo = Tail(@), !.OK = AndAssign(@, r.ok)])
    /\ log' = Append(log, Removal(Lstat(fs, entryPath), "remove", r.ok))
    /\ UNCHANGED <<fs0, locked, pc, call, result, listed>>

DeleteLink ==
    /\ InLoop
    /\ isLinkEntry(fs, entryPath)
    /\ DeleteStep(QFileRemove(fs, locked, entryPath))

DeleteRecurse ==
    /\ InLoop
    /\ ~isLinkEntry(fs, entryPath)
    /\ isDir(fs, entryPath)
    /\ stack' = Append(Append(Below, [Top EXCEPT !.todo = Tail(@)]),
                       DeleteFrame(entryPath, entryInfoList(fs, entryPath)))
    /\ UNCHANGED <<fs, fs0, locked, pc, call, result, log, listed>>

DeleteFile ==
    /\ InLoop
    /\ ~isLinkEntry(fs, entryPath)
    /\ ~isDir(fs, entryPath)
    /\ isFile(fs, entryPath)
    /\ DeleteStep(QFileRemove(fs, locked, entryPath))

DeleteUnknown ==
    /\ InLoop
    /\ ~isLinkEntry(fs, entryPath)
    /\ ~isDir(fs, entryPath)
    /\ ~isFile(fs, entryPath)
    /\ stack' = Append(Below, [Top EXCEPT !.todo = Tail(@), !.OK = FALSE])
    /\ UNCHANGED <<fs, fs0, locked, pc, call, result, log, listed>>

\* OK &= dir.rmdir(dir.absolutePath()); return OK
DeleteRmdir ==
    /\ pc = "run" /\ Top.todo = <<>>
    /\ LET r == RemoveRoot(fs, locked, Top.path)
           OK == AndAssign(Top.OK, r.ok)
       IN  /\ fs' = r.fs
           /\ log' = Append(log, Removal(Lstat(fs, Top.path), "rmdir", r.ok))
           /\ IF Len(stack) = 1
              THEN /\ pc' = "done"
                   /\ result' = OK
                   /\ stack' = <<>>
              ELSE /\ stack' = Append(SubSeq(stack, 1, Len(stack) - 2),
                                      [stack[Len(stack) - 1] EXCEPT !.OK = AndAssign(@, OK)])
                   /\ UNCHANGED <<pc, result>>
    /\ UNCHANGED <<fs0, locked, call, listed>>

NextDelete ==
    \/ DeleteStart
    \/ DeleteLink
    \/ DeleteRecurse
    \/ DeleteFile
    \/ DeleteUnknown
    \/ DeleteRmdir

SpecDelete == InitDelete /\ [][NextDelete]_vars

---------------------------------------------------------------------------
(* Claims about FS::deletePath                                             *)

\* The directory the call was given, symlinks resolved.
DeleteRoot == Stat(fs0, call.path)

AllRemoved == \A i \in 1..Len(log) : log[i].ok

\* C5: on an existing directory tree, when every remove operation succeeds,
\* deletePath returns true and leaves neither the root nor a descendant;
\* no directory is removed before an entry below it and the root goes last;
\* and the value returned is the AND of every remove operation.
DeleteRemovesTree ==
    (pc = "done" /\ call.op = "deletePath") =>
        /\ result = AllRemoved
        /\ (isDir(fs0, call.path) /\ ~isSymLink(fs0, call.path) /\ AllRemoved) =>
              /\ result = TRUE
              /\ ~exists(fs, call.path)
              /\ \A p \in DOMAIN fs : ~IsPrefix(DeleteRoot, p)
              /\ \A i, j \in 1..Len(log) : i < j => ~IsPrefix(log[i].path, log[j].path)
              /\ log[Len(log)] = Removal(DeleteRoot, "rmdir", TRUE)

\* A tree with a subdirectory, a file in it and a symlink has been deleted.
DeleteRemovesTreeWitness ==
    /\ pc = "done" /\ call.op = "deletePath"
    /\ isDir(fs0, call.path) /\ ~isSymLink(fs0, call.path) /\ AllRemoved
    /\ \E p, q, l \in Under(fs0, DeleteRoot) :
          /\ fs0[p].kind = "dir" /\ fs0[q].kind = "file" /\ IsPrefix(p, q)
          /\ fs0[l].kind = "link"
    /\ result = TRUE

\* C10: deletePath removes only entries inside the tree rooted at path: a
\* symlink met in the traversal is never entered, and every entry outside
\* the tree is as it was, at every point of the call.
DeleteStaysInside ==
    call.op = "deletePath" =>
        /\ \A i \in 1..Len(stack) : i > 1 => ~isSymLink(fs0, stack[i].path)
        /\ \A i \in 1..Len(stack) : IsPrefix(call.path, stack[i].path)
        /\ DOMAIN fs \subseteq DOMAIN fs0
        /\ \A p \in DOMAIN fs0 : ~IsPrefix(DeleteRoot, p) => At(fs, p) = fs0[p]

\* The tree held a symlink to a directory outside it that has an entry; the
\* call is over and the link is gone.
DeleteStaysInsideWitness ==
    /\ pc = "done" /\ call.op = "deletePath"
    /\ \E l \in Under(fs0, DeleteRoot) :
          /\ fs0[l].kind = "link"
          /\ isDir(fs0, l)
          /\ ~IsPrefix(DeleteRoot, Stat(fs0, l))
          /\ Children(fs, Stat(fs0, l)) # {}
          /\ l \notin DOMAIN fs


---------------------------------------------------------------------------
(* FS::write and FS::read                                                  *)

Bytes == {0, 1}

\* The longest buffer written.
MaxLen == 2

Buffers == UNION {[1..n -> Bytes] : n \in 0..MaxLen}

WriteNames == {<<"a">>, <<"a", "b">>}

\* The host failures a run may meet: none, or the save file's open, write
\* or commit fails.
Faults == {"none", "open", "write", "commit"}

\* "a" missing, a file or a directory; in the directory, "b" likewise.
InitFSIO ==
    {EmptyFS, Put(EmptyFS, <<"a">>, DirNode)}
    \cup {Put(EmptyFS, <<"a">>, FileNode(d)) : d \in Buffers}
    \cup {Put(Put(EmptyFS, <<"a">>, DirNode), <<"a", "b">>, FileNode(d)) : d \in Buffers}
    \cup {Put(Put(EmptyFS, <<"a">>, DirNode), <<"a", "b">>, DirNode)}

\* QFileInfo(filename).dir()
dirOf(filename) == SubSeq(filename, 1, Len(filename) - 1)

Threw(what) == [threw |-> TRUE, what |-> what, data |-> NoData]
Returned(d) == [threw |-> FALSE, what |-> "", data |-> d]

\* ensureExists(dir): mkpath, or throw.
ensureExists(f, dir) == mkpath(f, dir)

\* QSaveFile::open: a temporary file beside the destination; never the
\* destination itself.  Refused when the destination is a directory.
SaveFileOpen(f, filename, fault) ==
    IF fault = "open" \/ isDir(f, filename) \/ Lstat(f, filename) = Bad
    THEN [ok |-> FALSE, fs |-> f, tmp |-> <<>>]
    ELSE [ok |-> TRUE, fs |-> f, tmp |-> <<NoData>>]

\* The number of bytes QSaveFile::write accepts: all of them, or fewer.
Written(data, fault) == IF fault = "write" THEN Len(data) - 1 ELSE Len(data)

\* As a plain QFile would: the bytes go to the destination itself.
SaveFileWriteDirect(f, filename, data, n) ==
    [fs |-> Put(f, Lstat(f, filename), FileNode(SubSeq(data, 1, n))),
     tmp |-> <<SubSeq(data, 1, n)>>]

\* QSaveFile::write: the bytes go to the temporary file.
SaveFileWrite(f, filename, data, n) ==
    [fs |-> f, tmp |-> <<SubSeq(data, 1, n)>>]

\* QSaveFile::commit: the temporary file replaces the destination, or is
\* dropped.
SaveFileCommit(f, filename, tmp, fault) ==
    IF fault = "commit" THEN [ok |-> FALSE, fs |-> f]
    ELSE [ok |-> TRUE, fs |-> Put(f, Lstat(f, filename), FileNode(tmp[1]))]

\* FS::read without the read: the zeroed buffer is returned as it is.
FSreadUnfilled(f, filename) ==
    IF ~isFile(f, filename) THEN Threw("Unable to open")
    ELSE Returned([i \in 1..Len(At(f, Stat(f, filename)).data) |-> 0])

\* FS::read: open, size, a zeroed buffer of that size, read into it, compare.
FSread(f, filename) ==
    IF ~isFile(f, filename) THEN Threw("Unable to open")
    ELSE LET contents == At(f, Stat(f, filename)).data
             size == Len(contents)
             zeroed == [i \in 1..size |-> 0]
             ret == IF size <= Len(contents) THEN size ELSE Len(contents)
             data == [i \in 1..size |-> IF i <= ret THEN contents[i] ELSE zeroed[i]]
         IN  IF ret = -1 \/ ret # size THEN Threw("Error reading data")
             ELSE Returned(data)

InitIO ==
    /\ fs \in InitFSIO
    /\ fs0 = fs
    /\ locked = {}
    /\ pc = "call"
    /\ call \in [op : {"write"}, filename : WriteNames, data : Buffers, fault : Faults]
    /\ stack = <<>>
    /\ result = Returned(NoData)
    /\ log = "running"
    /\ listed = {}

\* throw FileSystemException(what); the QSaveFile goes out of scope and
\* drops its temporary file.
Throw(what) ==
    /\ pc' = "thrown"
    /\ stack' = <<>>
    /\ result' = Threw(what)
    /\ log' = "thrown"

WriteEnsure ==
    /\ pc = "call"
    /\ LET mk == ensureExists(fs, dirOf(call.filename))
       IN  /\ fs' = mk.fs
           /\ IF mk.ok
              THEN pc' = "open" /\ UNCHANGED <<stack, result, log>>
              ELSE Throw("Unable to create directory")
    /\ UNCHANGED <<fs0, locked, call, listed>>

WriteOpen ==
    /\ pc = "open"
    /\ LET o == SaveFileOpen(fs, call.filename, call.fault)
       IN  /\ fs' = o.fs
           /\ IF o.ok
              THEN pc' = "write" /\ stack' = o.tmp /\ UNCHANGED <<result, log>>
              ELSE Throw("Couldn't open")
    /\ UNCHANGED <<fs0, locked, call, listed>>

WriteData ==
    /\ pc = "write"
    /\ LET n == Written(call.data, call.fault)
           w == SaveFileWrite(fs, call.filename, call.data, n)
       IN  /\ fs' = w.fs
           /\ IF Len(call.data) # n
              THEN Throw("Error writing data")
              ELSE pc' = "commit" /\ stack' = w.tmp /\ UNCHANGED <<result, log>>
    /\ UNCHANGED <<fs0, locked, call, listed>>

WriteCommit ==
    /\ pc = "commit"
    /\ LET c == SaveFileCommit(fs, call.filename, stack, call.fault)
       IN  /\ fs' = c.fs
           /\ IF c.ok
              THEN pc' = "done" /\ stack' = <<>> /\ log' = "written" /\ UNCHANGED result
              ELSE Throw("Error while committing")
    /\ UNCHANGED <<fs0, locked, call, listed>>

\* FS::read(filename), called once the write has returned or thrown.
Read ==
    /\ pc \in {"done", "thrown"}
    /\ pc' = "read"
    /\ result' = FSread(fs, call.filename)
    /\ UNCHANGED <<fs, fs0, locked, call, stack, log, listed>>

NextIO ==
    \/ WriteEnsure
    \/ WriteOpen
    \/ WriteData
    \/ WriteCommit
    \/ Read

SpecIO == InitIO /\ [][NextIO]_vars

---------------------------------------------------------------------------
(* Claims about FS::write and FS::read                                     *)

\* What a reader of a path sees: the bytes of the file there, or no file.
Visible(f, p) ==
    IF isFile(f, p) THEN [file |-> TRUE, data |-> At(f, Stat(f, p)).data]
    ELSE [file |-> FALSE, data |-> NoData]

\* C1: the destination shows what it showed before the call at every point
\* of FS::write and after every failure, and the whole buffer once the
\* commit has succeeded; never anything else.
WriteIsAtomic ==
    call.op = "write" =>
        /\ log \in {"running", "thrown"} =>
              Visible(fs, call.filename) = Visible(fs0, call.filename)
        /\ log = "written" =>
              Visible(fs, call.filename) = [file |-> TRUE, data |-> call.data]
        /\ (pc = "read" /\ log = "thrown") =>
              result = FSread(fs0, call.filename)

\* A write over an existing file failed at the commit, after all the bytes
\* had gone to the temporary file.
WriteIsAtomicWitness ==
    /\ call.op = "write" /\ pc = "thrown"
    /\ result.what = "Error while committing"
    /\ isFile(fs0, call.filename)
    /\ call.data # NoData
    /\ At(fs0, Stat(fs0, call.filename)).data # call.data

\* C2: when FS::write(path, data) has returned, FS::read(path) returns data.
WriteThenRead ==
    (call.op = "write" /\ pc = "read" /\ log = "written") => result = Returned(call.data)

\* The empty buffer was written to a new file in a new directory and read
\* back.
WriteThenReadWitness ==
    /\ call.op = "write" /\ pc = "read" /\ log = "written"
    /\ call.data = NoData
    /\ ~exists(fs0, dirOf(call.filename)) /\ dirOf(call.filename) # <<>>


---------------------------------------------------------------------------
(* Path strings                                                            *)

\* A string is a sequence of characters.
Slash == "/"

RECURSIVE SplitFrom(_, _, _)
SplitFrom(str, i, cur) ==
    IF i > Len(str) THEN (IF cur = <<>> THEN <<>> ELSE <<cur>>)
    ELSE IF str[i] = Slash
         THEN (IF cur = <<>> THEN <<>> ELSE <<cur>>) \o SplitFrom(str, i + 1, <<>>)
         ELSE SplitFrom(str, i + 1, Append(cur, str[i]))

\* The components of a path string.
Split(str) == SplitFrom(str, 1, <<>>)

isAbsolutePath(str) == Len(str) > 0 /\ str[1] = Slash

RECURSIVE CleanFrom(_, _)
CleanFrom(done, rest) ==
    IF rest = <<>> THEN done
    ELSE IF Head(rest) = <<".">> THEN CleanFrom(done, Tail(rest))
    ELSE IF Head(rest) = <<".", ".">>
         THEN CleanFrom(IF done = <<>> THEN <<>> ELSE SubSeq(done, 1, Len(done) - 1),
                        Tail(rest))
    ELSE CleanFrom(Append(done, Head(rest)), Tail(rest))

RECURSIVE JoinWith(_)
JoinWith(comps) ==
    IF comps = <<>> THEN <<>>
    ELSE IF Len(comps) = 1 THEN comps[1]
    ELSE comps[1] \o <<Slash>> \o JoinWith(Tail(comps))

\* The string of an absolute path with these components.
JoinAbs(comps) == <<Slash>> \o JoinWith(comps)

\* QDir(path).absolutePath() with the working directory cwd (a string).
absolutePath(cwd, path) ==
    IF isAbsolutePath(path) THEN JoinAbs(CleanFrom(<<>>, Split(path)))
    ELSE JoinAbs(CleanFrom(<<>>, Split(cwd) \o Split(path)))

\* QString::startsWith: a prefix of characters.
startsWith(str, prefix) == IsPrefix(prefix, str)

RECURSIVE CommonLen(_, _)
CommonLen(x, y) ==
    IF x # <<>> /\ y # <<>> /\ Head(x) = Head(y) THEN 1 + CommonLen(Tail(x), Tail(y))
    ELSE 0

\* QDir(dir).relativeFilePath(file), both absolute: ".." for every
\* component of dir beyond what the two share, then the rest of file.
relativeFilePath(dir, file) ==
    LET d == Split(dir)
        t == Split(file)
        c == CommonLen(d, t)
        res == JoinWith([i \in 1..(Len(d) - c) |-> <<".", ".">>]
                        \o SubSeq(t, c + 1, Len(t)))
    IN  IF res = <<>> THEN <<".">> ELSE res

\* FS::NormalizePath with the working directory currentPath.
NormalizePath(currentPath, path) ==
    LET currentAbsolute == absolutePath(currentPath, currentPath)
        newAbsolute == absolutePath(currentPath, path)
    IN  IF startsWith(newAbsolute, currentAbsolute)
        THEN relativeFilePath(currentAbsolute, newAbsolute)
        ELSE newAbsolute

Segs == {<<"u">>, <<"u", "2">>, <<"x">>}

SeqsUpTo2(S) == {<<>>} \cup {<<x>> : x \in S} \cup {<<x, y>> : x \in S, y \in S}

WorkingDirs == {JoinAbs(c) : c \in SeqsUpTo2(Segs)}

PathInputs ==
    {JoinAbs(c) : c \in SeqsUpTo2(Segs \cup {<<".", ".">>})}
    \cup {JoinWith(c) : c \in SeqsUpTo2(Segs \cup {<<".", ".">>})}

InitNormalize ==
    /\ fs = EmptyFS
    /\ fs0 = fs
    /\ locked = {}
    /\ pc = "call"
    /\ call \in [op : {"NormalizePath"}, currentPath : WorkingDirs, path : PathInputs]
    /\ stack = <<>>
    /\ result = <<>>
    /\ log = <<>>
    /\ listed = {}

Normalize ==
    /\ pc = "call"
    /\ pc' = "done"
    /\ result' = NormalizePath(call.currentPath, call.path)
    /\ UNCHANGED <<fs, fs0, locked, call, stack, log, listed>>

NextNormalize == Normalize

SpecNormalize == InitNormalize /\ [][NextNormalize]_vars

\* C7: NormalizePath returns the path relative to the working directory if
\* and only if the absolute path is the working directory or lies below it,
\* and the absolute path otherwise.
NormalizeRelativeIffInside ==
    (pc = "done" /\ call.op = "NormalizePath") =>
        LET cur == CleanFrom(<<>>, Split(call.currentPath))
            new == Split(absolutePath(call.currentPath, call.path))
        IN  IF IsPrefix(cur, new)
            THEN result = (IF new = cur THEN <<".">>
                           ELSE JoinWith(SubSeq(new, Len(cur) + 1, Len(new))))
            ELSE result = JoinAbs(new)


---------------------------------------------------------------------------
(* FS::DirNameFromString                                                   *)

\* QString badFilenameChars
badFilenameChars == <<"\"", "\\", "/", "?", "<", ">", ":", "*", "|", "!">>

Contains(str, ch) == \E i \in 1..Len(str) : str[i] = ch

\* FS::RemoveInvalidFilenameChars
RemoveInvalidFilenameChars(string, replaceWith) ==
    [i \in 1..Len(string) |->
        IF Contains(badFilenameChars, string[i]) THEN replaceWith ELSE string[i]]

DigitChars == <<"0", "1", "2", "3", "4", "5", "6", "7", "8", "9">>

\* QString::number(num), num >= 0: the decimal digits.
RECURSIVE number(_)
number(num) ==
    IF num < 10 THEN <<DigitChars[num + 1]>>
    ELSE Append(number(num \div 10), DigitChars[(num % 10) + 1])

DigitValue(ch) == CHOOSE d \in 0..9 : DigitChars[d + 1] = ch

\* The number a string of digits written by QString::number stands for, or
\* -1 when it is no such string.
RECURSIVE ParseDigits(_, _)
ParseDigits(str, acc) ==
    IF str = <<>> THEN acc
    ELSE IF ~Contains(DigitChars, Head(str)) THEN -1
    ELSE ParseDigits(Tail(str), acc * 10 + DigitValue(Head(str)))

ParseNumber(str) ==
    IF str = <<>> \/ (Len(str) > 1 /\ str[1] = "0") THEN -1 ELSE ParseDigits(str, 0)

\* The probe cap of the loop ("If it's over 9000").
ProbeCap == 9000

\* num >= 9000: one probe fewer.
GiveUpAtCap(num) == num >= ProbeCap

\* num > 9000: give up.
GiveUp(num) == num > ProbeCap

\* FS::PathCombine(path1, path2), for names without separators or dots.
PathCombine(path1, path2) ==
    IF Len(path1) = 0 THEN path2
    ELSE IF Len(path2) = 0 THEN path1
    ELSE path1 \o <<Slash>> \o path2

\* The directory inDir: it exists or not, and when it does it holds the
\* entries stem, stem1, ..., stem<upto - 1> but for the numbers in gaps.
InDirs ==
    [there : BOOLEAN, stem : {<<"x">>, <<"x", "-">>, <<"-", "-">>},
     upto : {0, 1, 3, ProbeCap, ProbeCap + 1}, gaps : {{}, {1}}]

TheDir == <<"d">>

\* QFileInfo(path).exists() in the file system that holds only dir.
existsIn(dir, path) ==
    IF ~dir.there THEN FALSE
    ELSE IF path = TheDir THEN TRUE
    ELSE /\ IsPrefix(TheDir \o <<Slash>> \o dir.stem, path)
         /\ LET rest == SubSeq(path, Len(TheDir) + Len(dir.stem) + 2, Len(path))
                n == IF rest = <<>> THEN 0 ELSE ParseNumber(rest)
            IN  n >= 0 /\ (rest = <<>> \/ n > 0) /\ n < dir.upto /\ n \notin dir.gaps

DirNameInputs == {<<>>, <<"x">>, <<"x", "/">>, <<"?", ":">>}

InitDirName ==
    /\ fs \in {d \in InDirs : d.there \/ (d.upto = 0 /\ d.gaps = {})}
    /\ fs0 = fs
    /\ locked = {}
    /\ pc = "call"
    /\ call \in [op : {"DirNameFromString"}, string : DirNameInputs, inDir : {TheDir}]
    /\ stack = <<>>
    /\ result = <<>>
    /\ log = <<>>
    /\ listed = {}

\* int num = 0; QString baseName = RemoveInvalidFilenameChars(string, '-');
DirNameEnter ==
    /\ pc = "call"
    /\ pc' = "loop"
    /\ stack' = <<[num |-> 0,
                   baseName |-> RemoveInvalidFilenameChars(call.string, "-"),
                   dirName |-> <<>>]>>
    /\ UNCHANGED <<fs, fs0, locked, call, result, log, listed>>

\* One turn of the do-while loop, up to its condition.
DirNameProbe ==
    /\ pc = "loop"
    /\ LET num == stack[1].num
           baseName == stack[1].baseName
           dirName == IF num = 0 THEN baseName ELSE baseName \o number(num)
       IN  IF GiveUp(num)
           THEN /\ pc' = "done"
                /\ result' = <<>>
                /\ stack' = <<[stack[1] EXCEPT !.dirName = dirName]>>
           ELSE /\ stack' = <<[stack[1] EXCEPT !.dirName = dirName, !.num = num + 1]>>
                /\ IF existsIn(fs, PathCombine(call.inDir, dirName))
                   THEN UNCHANGED <<pc, result>>
                   ELSE pc' = "done" /\ result' = dirName
    /\ UNCHANGED <<fs, fs0, locked, call, log, listed>>

NextDirName ==
    \/ DirNameEnter
    \/ DirNameProbe

SpecDirName == InitDirName /\ [][NextDirName]_vars

\* The i-th name of the sequence base, base1, base2, ...
Candidate(i) ==
    LET base == RemoveInvalidFilenameChars(call.string, "-")
    IN  IF i = 0 THEN base ELSE base \o number(i)

Taken(i) == existsIn(fs, PathCombine(call.inDir, Candidate(i)))

FirstFree(n) == CHOOSE i \in 0..n : ~Taken(i) /\ \A j \in 0..(i - 1) : Taken(j)

\* C6 as claimed, for a base name that is not empty: the result is empty
\* exactly when the first 9000 names of the sequence all exist, and the
\* first name that does not exist otherwise.
DirNameGivesUpAfterCap ==
    (pc = "done" /\ call.op = "DirNameFromString" /\ call.string # <<>>) =>
        IF \A i \in 0..(ProbeCap - 1) : Taken(i)
        THEN result = <<>>
        ELSE result = Candidate(FirstFree(ProbeCap - 1))

\* C6 amended: the result is the first of the 9001 names base, base1, ...,
\* base9000 that does not exist, and empty when all of them exist; a name
\* returned is never one that exists.
DirNameFirstFree ==
    (pc = "done" /\ call.op = "DirNameFromString") =>
        /\ IF \A i \in 0..ProbeCap : Taken(i)
           THEN result = <<>>
           ELSE result = Candidate(FirstFree(ProbeCap))
        /\ result # <<>> => ~existsIn(fs, PathCombine(call.inDir, result))
        /\ (call.string # <<>> /\ result = <<>>) => \A i \in 0..ProbeCap : Taken(i)

\* The loop gave up: every one of the 9001 names was probed and exists.
DirNameFirstFreeWitness ==
    /\ pc = "done" /\ call.op = "DirNameFromString"
    /\ result = <<>> /\ call.string # <<>>
    /\ stack[1].num = ProbeCap + 1
    /\ fs.upto = ProbeCap + 1

---------------------------------------------------------------------------
(* FS::openDirInDefaultProgram                                             *)

OpenDirPaths == {<<"a">>, <<"a", "b">>, <<"b">>, <<"b", "a">>}

InitOpenDir ==
    /\ fs \in InitFSIO
    /\ fs0 = fs
    /\ locked = {}
    /\ pc = "call"
    /\ call \in [op : {"openDirInDefaultProgram"}, path : OpenDirPaths,
                 ensureExists : BOOLEAN]
    /\ stack = <<>>
    /\ result = <<>>
    /\ log = <<>>
    /\ listed = {}

\* if (!dir.exists()) parentPath.mkpath(dir.absolutePath()); the path then
\* goes to QDesktopServices::openUrl.
openDirInDefaultProgram(f, path, ensure) ==
    IF ~isDir(f, path) THEN mkpath(f, path).fs ELSE f

OpenDir ==
    /\ pc = "call"
    /\ pc' = "done"
    /\ fs' = openDirInDefaultProgram(fs, call.path, call.ensureExists)
    /\ result' = call.path
    /\ UNCHANGED <<fs0, locked, call, stack, log, listed>>

NextOpenDir == OpenDir

SpecOpenDir == InitOpenDir /\ [][NextOpenDir]_vars

\* C8: the directory is created only when ensureExists asks for it: called
\* with ensureExists = false the file system is left as it was, called with
\* ensureExists = true on a path that can be created the directory exists.
OpenDirCreatesOnRequest ==
    (pc = "done" /\ call.op = "openDirInDefaultProgram") =>
        /\ ~call.ensureExists => fs = fs0
        /\ (call.ensureExists /\ mkpath(fs0, call.path).ok) => isDir(fs, call.path)


===========================================================================
